---- MODULE Spec2Model ----
(***************************************************************************)
(* Model of candle-examples/examples/siglip/main.rs: the zero-shot         *)
(* image/text matching pipeline (load_image, load_images,                  *)
(* tokenize_sequences and the report loop of main).                        *)
(*                                                                         *)
(* Options are sequences of length 0 (None) or 1 (Some(x)).                *)
(* f32 values of image tensors are integers counting units of 2^-30; all   *)
(* values the affine map produces from bytes are multiples of that unit.   *)
(* Probabilities are fixed-point integers counting units of 2^-20.         *)
(***************************************************************************)
EXTENDS Integers, Sequences, FiniteSets, TLC

\* ------------------------------------------------------------------ bounds
MaxImageSize == 2
MaxImages == 2
MaxTexts == 2
MaxPositionEmbeddings == 3
UsizeBits == 16

\* ------------------------------------------------------------ small helpers
None == <<>>
Some(x) == <<x>>
IsSome(o) == Len(o) = 1
Unwrap(o) == o[1]

Abs(n) == IF n < 0 THEN -n ELSE n

RECURSIVE BitLen(_)
BitLen(n) == IF n = 0 THEN 0 ELSE 1 + BitLen(n \div 2)

\* ------------------------------------------------------- f32 arithmetic
\* Drop the s low bits of n >= 0, rounding to nearest, ties to even.
RoundNearestEven(n, s) ==
    IF s = 0 THEN n
    ELSE LET q == n \div (2^s)
             r == n % (2^s)
             h == 2^(s - 1)
         IN IF r > h \/ (r = h /\ q % 2 = 1) THEN q + 1 ELSE q

\* Round the integer n (units of 2^-30) to a 24-bit significand, keep sign.
F32Round(n) ==
    LET a == Abs(n)
        s == IF BitLen(a) > 24 THEN BitLen(a) - 24 ELSE 0
        r == RoundNearestEven(a, s) * (2^s)
    IN IF n < 0 THEN -r ELSE r

\* f32 nearest to 2/255 is AffineMulMant * 2^-30 (24-bit significand).
AffineMulMant == 8421505
\* 1.0 in units of 2^-30
F32One == 2^30

\* f32 product of the byte x (exact as f32) and the f32 multiplier, as a
\* pair: significand m and shift s, value m * 2^s units of 2^-30.  The exact
\* product x * AffineMulMant can need 32 bits, so it is kept in two limbs
\* hi * 256 + lo.
F32MulByte(x) ==
    LET mhi == AffineMulMant \div 256
        mlo == AffineMulMant % 256
        hi == x * mhi + ((x * mlo) \div 256)
        lo == (x * mlo) % 256
    IN IF hi < 2^23
       THEN LET p == hi * 256 + lo
                s == IF BitLen(p) > 24 THEN BitLen(p) - 24 ELSE 0
            IN [m |-> RoundNearestEven(p, s), s |-> s]
       ELSE [m |-> IF lo > 128 \/ (lo = 128 /\ hi % 2 = 1) THEN hi + 1 ELSE hi,
             s |-> 8]

affine_256(x) == F32Round(x * (2^23) - F32One)

\* affine(2./255., -1.) on one f32 element holding the byte x: v * mul + add,
\* each operation rounded to f32.
affine(x) ==
    LET p == F32MulByte(x)
        sum == IF p.s = 0 THEN p.m - F32One
               ELSE (p.m * (2^(p.s - 1)) - (F32One \div 2)) * 2
    IN F32Round(sum)

\* ------------------------------------------------------------ load_image
\* Tensor::from_vec(img, (height, width, 3)): row-major view of the raw
\* buffer (a 1-based sequence), indexed [h][w][c] from 0.
from_vec(raw, height, width) ==
    [h \in 0..(height - 1) |->
        [w \in 0..(width - 1) |->
            [c \in 0..2 |-> raw[(h * width + w) * 3 + c + 1]]]]

permute_2_1_0(t) ==
    LET H == DOMAIN t
        W == DOMAIN t[0]
        C == DOMAIN t[0][0]
    IN [c \in C |-> [h \in H |-> [w \in W |->
            IF h \in W /\ w \in H THEN t[w][h][c] ELSE t[h][w][c]]]]

\* permute((2, 0, 1)): result[c][h][w] = t[h][w][c]
permute_2_0_1(t) ==
    LET H == DOMAIN t
        W == DOMAIN t[0]
        C == DOMAIN t[0][0]
    IN [c \in C |-> [h \in H |-> [w \in W |-> t[h][w][c]]]]

\* to_dtype(F32) then affine, element-wise.
to_f32_affine(t) ==
    [c \in DOMAIN t |-> [h \in DOMAIN t[c] |-> [w \in DOMAIN t[c][h] |->
        affine(t[c][h][w])]]]

\* load_image after decode/resize_to_fill/to_rgb8/into_raw produced `raw`
\* (image_size * image_size * 3 bytes).
load_image(raw, image_size) ==
    to_f32_affine(permute_2_0_1(from_vec(raw, image_size, image_size)))

\* load_image after decode/resize_to_fill/to_rgb8/into_raw: `file` is None
\* when open()/decode() fails, else Some(raw buffer).
load_image_file(file, size) ==
    IF IsSome(file)
    THEN [ok |-> TRUE, val |-> Some(load_image(Unwrap(file), size)), err |-> ""]
    ELSE [ok |-> FALSE, val |-> None, err |-> "DecodeError"]

\* ------------------------------------------------------------ file system
DefaultImages == <<"stable-diffusion-xl.jpg", "bike.jpg">>
Paths == {"stable-diffusion-xl.jpg", "bike.jpg", "corrupt.png"}

PathSeed(path) ==
    CASE path = "stable-diffusion-xl.jpg" -> 0
      [] path = "bike.jpg" -> 131
      [] OTHER -> 7

\* What decoding and resizing the file at `path` yields: nothing for the
\* corrupt file, else size*size*3 bytes.
FileAt(path, size) ==
    IF path = "corrupt.png" THEN None
    ELSE Some([k \in 1..(3 * size * size) |-> (PathSeed(path) + 62 * k) % 256])

\* ------------------------------------------------------------ load_images
images_push_front(v, t) == <<t>> \o v

\* images.push(tensor)
images_push(v, t) == Append(v, t)

load_images_body_skip(imgs, path, size) ==
    LET r == load_image_file(FileAt(path, size), size)
    IN IF r.ok THEN [ok |-> TRUE, images |-> images_push(imgs, Unwrap(r.val)), err |-> ""]
       ELSE [ok |-> TRUE, images |-> imgs, err |-> ""]

\* One iteration of the loop of load_images: `?` returns the error.
load_images_body(imgs, path, size) ==
    LET r == load_image_file(FileAt(path, size), size)
    IN IF r.ok THEN [ok |-> TRUE, images |-> images_push(imgs, Unwrap(r.val)), err |-> ""]
       ELSE [ok |-> FALSE, images |-> imgs, err |-> r.err]

\* Tensor::stack(&images, 0): the tensors in order along a new axis 0; fails
\* on an empty list or on tensors of different shapes.
stack(imgs) ==
    IF Len(imgs) = 0 THEN [ok |-> FALSE, val |-> None, err |-> "ShapeMismatchError"]
    ELSE IF \E a, b \in 1..Len(imgs) :
                \/ DOMAIN imgs[a] # DOMAIN imgs[b]
                \/ DOMAIN imgs[a][0] # DOMAIN imgs[b][0]
                \/ DOMAIN imgs[a][0][0] # DOMAIN imgs[b][0][0]
    THEN [ok |-> FALSE, val |-> None, err |-> "ShapeMismatchError"]
    ELSE [ok |-> TRUE, val |-> Some(imgs), err |-> ""]

\* ------------------------------------------------------------ tokenizer
DefaultTexts == <<"a cycling race", "a photo of two cats", "a robot holding a candle">>
Texts == {"short", "exact", "long", "rejected"}

\* config.text_config.pad_token_id
pad_id == 1
\* config.text_config.max_position_embeddings
max_len == MaxPositionEmbeddings

\* Number of ids the tokenizer produces for a text it accepts.
NaturalLen(text) ==
    CASE text = "short" -> 1
      [] text = "exact" -> max_len
      [] text = "long" -> max_len + 1
      [] text = "a cycling race" -> 1
      [] text = "a photo of two cats" -> 2
      [] OTHER -> max_len

TokenBase(text) ==
    CASE text = "short" -> 10
      [] text = "exact" -> 20
      [] text = "long" -> 30
      [] text = "a cycling race" -> 40
      [] text = "a photo of two cats" -> 50
      [] OTHER -> 60

\* tokenizer.encode(seq, true): the ids, or an error for a rejected text.
encode(text) ==
    IF text = "rejected"
    THEN [ok |-> FALSE, ids |-> <<>>, err |-> "TokenizationError"]
    ELSE [ok |-> TRUE, ids |-> [p \in 1..NaturalLen(text) |-> TokenBase(text) + p],
          err |-> ""]

\* ----------------------------------------------------- tokenize_sequences
resolve_sequences_nonempty(sequences) ==
    IF IsSome(sequences) /\ Len(Unwrap(sequences)) > 0
    THEN Unwrap(sequences) ELSE DefaultTexts

\* match sequences { Some(seq) => seq, None => vec![defaults] }
resolve_sequences(sequences) ==
    IF IsSome(sequences) THEN Unwrap(sequences) ELSE DefaultTexts

tokens_push_front(v, ids) == <<ids>> \o v

\* tokens.push(encoding.get_ids().to_vec())
tokens_push(v, ids) == Append(v, ids)

UsizeModulus == 2^UsizeBits
\* isize::MAX, the largest allocation size in bytes
IsizeMax == 2^(UsizeBits - 1) - 1

len_diff_saturating(a, b) == IF a >= b THEN a - b ELSE 0

\* max_len - token_vec.len() on usize without overflow checks: wraps.
len_diff(a, b) == (a - b + UsizeModulus) % UsizeModulus

\* vec![pad_id; n] of u32 (4 bytes each) allocates iff n * 4 <= isize::MAX.
vec_alloc_ok(n) == n <= IsizeMax \div 4

pad_row_left(row, d) ==
    IF d > 0 THEN [k \in 1..d |-> pad_id] \o row ELSE row

\* if len_diff > 0 { token_vec.extend(vec![pad_id; len_diff]) }
pad_row(row, d) ==
    IF d > 0 THEN row \o [k \in 1..d |-> pad_id] ELSE row

\* Tensor::new(tokens, device) for Vec<Vec<u32>>: fails on an empty list and
\* on rows of different lengths, else the rows in order.
tensor_new(toks) ==
    IF Len(toks) = 0 THEN [ok |-> FALSE, val |-> None, err |-> "empty array"]
    ELSE IF \E k \in 1..Len(toks) : Len(toks[k]) # Len(toks[1])
    THEN [ok |-> FALSE, val |-> None, err |-> "different shapes"]
    ELSE [ok |-> TRUE, val |-> Some(toks), err |-> ""]

\* ------------------------------------------------------------ scoring model
RECURSIVE SumSeq(_)
SumSeq(q) == IF Len(q) = 0 THEN 0 ELSE q[1] + SumSeq(Tail(q))

MaxOf(q) == CHOOSE m \in {q[k] : k \in 1..Len(q)} : \A k \in 1..Len(q) : q[k] <= m

\* Unit of probabilities: 1.0 = ProbOne units of 2^-20.
ProbOne == 2^20

\* exp(-d) for d >= 0, in units of 2^-10, rounded to nearest.
ExpNeg(d) ==
    CASE d = 0 -> 1024
      [] d = 1 -> 377
      [] d = 2 -> 139
      [] d = 3 -> 51
      [] d = 4 -> 19
      [] d = 5 -> 7
      [] d = 6 -> 3
      [] d = 7 -> 1
      [] OTHER -> 0

\* Softmax of one vector: subtract the maximum, exponentiate, normalise;
\* each quotient rounded to nearest.
softmax_vec(row) ==
    LET mx == MaxOf(row)
        e == [k \in 1..Len(row) |-> ExpNeg(mx - row[k])]
        total == SumSeq(e)
    IN [k \in 1..Len(row) |-> (e[k] * ProbOne + total \div 2) \div total]

transpose(m) ==
    [c \in 1..Len(m[1]) |-> [r \in 1..Len(m) |-> m[r][c]]]

\* candle_nn::ops::softmax(xs, dim) on a matrix given as its rows.
softmax(m, dim) ==
    IF dim = 1 THEN [r \in 1..Len(m) |-> softmax_vec(m[r])]
    ELSE transpose([c \in 1..Len(m[1]) |-> softmax_vec(transpose(m)[c])])

\* flatten_all().to_vec1(): the elements in row-major order.
RECURSIVE flatten_all(_)
flatten_all(m) == IF Len(m) = 0 THEN <<>> ELSE m[1] \o flatten_all(Tail(m))

\* The logit matrices model.forward may return for n images and m texts:
\* shape (n, m); row i is a rotation of 0, 1, 2, 0, ...
LogitMatrices(n, m) ==
    {[i \in 1..n |-> [t \in 1..m |-> (t + rot[i]) % 3]] : rot \in [1..n -> 0..2]}

\* ------------------------------------------------------------ main, report
softmax_image_axis0(logits) == softmax(logits, 0)

\* let softmax_image = softmax(&logits_per_image, 1)?
softmax_image(logits) == softmax(logits, 1)

\* .iter().map(|v| v * 100.0).collect()
to_percent(vec) == [k \in 1..Len(vec) |-> vec[k] * 100]

\* probability_vec.len() / vec_imgs.len()
per_image(len, n_imgs) == len \div n_imgs

slice_start_unscaled(idx, group) == idx

\* let start = i * probability_per_image
slice_start(idx, group) == idx * group

RECURSIVE InsertDesc(_, _)
InsertDesc(q, x) ==
    IF Len(q) = 0 THEN <<x>>
    ELSE IF x >= q[1] THEN <<x>> \o q ELSE <<q[1]>> \o InsertDesc(Tail(q), x)

RECURSIVE SortDesc(_)
SortDesc(q) == IF Len(q) = 0 THEN <<>> ELSE InsertDesc(SortDesc(Tail(q)), q[1])

slice_sorted(vec, start, end) == SortDesc(SubSeq(vec, start + 1, end))

\* &probability_vec[start..end] (0-based, end exclusive)
slice(vec, start, end) == SubSeq(vec, start + 1, end)

\* "{:.4}" of a percentage p (units of 2^-20): the number of 1e-4 shown.
format4(p) ==
    (p \div ProbOne) * 10000 + RoundNearestEven((p % ProbOne) * 625, 16)

\* ------------------------------------------------------------------ state
VARIABLES
    pc,               \* position in main (or in the stand-alone load_image call)
    err,              \* the error or panic that ended the run, "" if none
    args_images,      \* args.images
    args_sequences,   \* args.sequences
    image_size,       \* config.vision_config.image_size
    vec_imgs,         \* main: vec_imgs
    img_idx,          \* load_images: number of paths iterated
    images,           \* load_images: the Vec being filled
    image_batch,      \* main: images (the stacked batch), an Option
    seq_local,        \* tokenize_sequences: vec_seq, an Option (None before the match)
    tokens,           \* tokenize_sequences: tokens
    padded,           \* tokenize_sequences: rows the padding loop has visited
    input_ids,        \* main: input_ids, an Option
    vec_seq,          \* main: vec_seq, the list tokenize_sequences returned
    logits_per_image, \* main: logits_per_image, an Option
    forward_calls,    \* number of calls of model.forward
    probability_vec,  \* main: probability_vec
    i,                \* report: index of the outer loop
    prob,             \* report: current slice, an Option
    j,                \* report: index of the inner loop
    out,              \* lines printed to standard output
    img_file,         \* stand-alone load_image: the decoded file, an Option
    tensor            \* stand-alone load_image: the returned tensor, an Option

vars == <<pc, err, args_images, args_sequences, image_size, vec_imgs, img_idx,
          images, image_batch, seq_local, tokens, padded, input_ids, vec_seq,
          logits_per_image, forward_calls, probability_vec, i, prob, j, out,
          img_file, tensor>>

argVars == <<args_images, args_sequences, image_size, img_file, tensor>>
imgVars == <<vec_imgs, img_idx, images, image_batch>>
tokVars == <<seq_local, tokens, padded, input_ids, vec_seq>>
repVars == <<logits_per_image, forward_calls, probability_vec, i, prob, j, out>>

SeqsOf(S, lo, hi) == UNION {[1..n -> S] : n \in lo..hi}

Line(kind, img, text, p, ii, jj) ==
    [kind |-> kind, img |-> img, text |-> text, p |-> p,
     shown |-> IF p < 0 THEN p ELSE format4(p), i |-> ii, j |-> jj]

InitLocals ==
    /\ err = ""
    /\ vec_imgs = <<>> /\ img_idx = 0 /\ images = <<>> /\ image_batch = None
    /\ seq_local = None /\ tokens = <<>> /\ padded = 0
    /\ input_ids = None /\ vec_seq = <<>>
    /\ logits_per_image = None /\ forward_calls = 0 /\ probability_vec = <<>>
    /\ i = 0 /\ prob = None /\ j = 0 /\ out = <<>>

Init ==
    /\ pc = "start"
    /\ args_images \in {None} \cup {Some(s) : s \in SeqsOf(Paths, 1, MaxImages)}
    /\ args_sequences \in {None} \cup {Some(s) : s \in SeqsOf(Texts, 0, MaxTexts)}
    /\ image_size = 1
    /\ img_file = None /\ tensor = None
    /\ InitLocals

\* ---------------------------------------------------------------- actions
\* main, lines 130-136: the image list or the two default paths.
Start ==
    /\ pc = "start"
    /\ vec_imgs' = IF IsSome(args_images) THEN Unwrap(args_images) ELSE DefaultImages
    /\ pc' = "load_images"
    /\ UNCHANGED <<err, img_idx, images, image_batch>>
    /\ UNCHANGED <<argVars, tokVars, repVars>>

\* load_images, lines 88-91: one iteration of the loop.
LoadImagesStep ==
    /\ pc = "load_images"
    /\ img_idx < Len(vec_imgs)
    /\ LET r == load_images_body(images, vec_imgs[img_idx + 1], image_size)
       IN /\ images' = r.images
          /\ img_idx' = img_idx + 1
          /\ pc' = IF r.ok THEN "load_images" ELSE "failed"
          /\ err' = r.err
    /\ UNCHANGED <<vec_imgs, image_batch>>
    /\ UNCHANGED <<argVars, tokVars, repVars>>

\* load_images, lines 92-93, and main up to the call of tokenize_sequences.
LoadImagesReturn ==
    /\ pc = "load_images"
    /\ img_idx = Len(vec_imgs)
    /\ LET r == stack(images)
       IN /\ image_batch' = r.val
          /\ pc' = IF r.ok THEN "tokenize" ELSE "failed"
          /\ err' = r.err
    /\ UNCHANGED <<vec_imgs, img_idx, images>>
    /\ UNCHANGED <<argVars, tokVars, repVars>>

\* tokenize_sequences, lines 186-195.
TokenizeStart ==
    /\ pc = "tokenize"
    /\ seq_local = None
    /\ seq_local' = Some(resolve_sequences(args_sequences))
    /\ UNCHANGED <<pc, err, tokens, padded, input_ids, vec_seq>>
    /\ UNCHANGED <<argVars, imgVars, repVars>>

\* tokenize_sequences, lines 196-199: one iteration of the encoding loop.
EncodeStep ==
    /\ pc = "tokenize"
    /\ IsSome(seq_local)
    /\ Len(tokens) < Len(Unwrap(seq_local))
    /\ LET r == encode(Unwrap(seq_local)[Len(tokens) + 1])
       IN IF r.ok
          THEN /\ tokens' = tokens_push(tokens, r.ids)
               /\ UNCHANGED <<pc, err>>
          ELSE /\ pc' = "failed"
               /\ err' = r.err
               /\ UNCHANGED tokens
    /\ UNCHANGED <<seq_local, padded, input_ids, vec_seq>>
    /\ UNCHANGED <<argVars, imgVars, repVars>>

\* tokenize_sequences, lines 202-207: one iteration of the padding loop.
\* The subtraction on usize panics in a build with overflow checks and wraps
\* in a build without them.
PadStep ==
    /\ pc = "tokenize"
    /\ IsSome(seq_local)
    /\ Len(tokens) = Len(Unwrap(seq_local))
    /\ padded < Len(tokens)
    /\ LET row == tokens[padded + 1]
           d == len_diff(max_len, Len(row))
       IN \/ /\ max_len < Len(row)
             /\ pc' = "panicked"
             /\ err' = "attempt to subtract with overflow"
             /\ UNCHANGED <<tokens, padded>>
          \/ /\ d > 0
             /\ ~vec_alloc_ok(d)
             /\ pc' = "panicked"
             /\ err' = "capacity overflow"
             /\ UNCHANGED <<tokens, padded>>
          \/ /\ d > 0 => vec_alloc_ok(d)
             /\ tokens' = [tokens EXCEPT ![padded + 1] = pad_row(row, d)]
             /\ padded' = padded + 1
             /\ UNCHANGED <<pc, err>>
    /\ UNCHANGED <<seq_local, input_ids, vec_seq>>
    /\ UNCHANGED <<argVars, imgVars, repVars>>

\* tokenize_sequences, lines 208-209, and its return to main (line 145).
TokenizeReturn ==
    /\ pc = "tokenize"
    /\ IsSome(seq_local)
    /\ Len(tokens) = Len(Unwrap(seq_local))
    /\ padded = Len(tokens)
    /\ LET r == tensor_new(tokens)
       IN IF r.ok
          THEN /\ input_ids' = r.val
               /\ vec_seq' = Unwrap(seq_local)
               /\ pc' = "forward"
               /\ UNCHANGED err
          ELSE /\ pc' = "failed"
               /\ err' = r.err
               /\ UNCHANGED <<input_ids, vec_seq>>
    /\ UNCHANGED <<seq_local, tokens, padded>>
    /\ UNCHANGED <<argVars, imgVars, repVars>>

\* main, line 146: the scoring model returns logits of shape (N, M), or fails.
Forward ==
    /\ pc = "forward"
    /\ forward_calls' = forward_calls + 1
    /\ \/ /\ pc' = "failed"
          /\ err' = "ExternalModelError"
          /\ UNCHANGED logits_per_image
       \/ /\ \E m \in LogitMatrices(Len(Unwrap(image_batch)), Len(Unwrap(input_ids))) :
                logits_per_image' = Some(m)
          /\ pc' = "softmax"
          /\ UNCHANGED err
    /\ UNCHANGED <<probability_vec, i, prob, j, out>>
    /\ UNCHANGED <<argVars, imgVars, tokVars>>

\* main, lines 147-154.
Softmax ==
    /\ pc = "softmax"
    /\ LET softmax_image_vec == flatten_all(softmax_image(Unwrap(logits_per_image)))
       IN /\ out' = Append(out, Line("softmax_image_vec", "", "", -1, -1, -1))
          /\ probability_vec' = to_percent(softmax_image_vec)
    /\ pc' = "report"
    /\ UNCHANGED <<err, logits_per_image, forward_calls, i, prob, j>>
    /\ UNCHANGED <<argVars, imgVars, tokVars>>

probability_per_image == per_image(Len(probability_vec), Len(vec_imgs))

\* main, lines 155-159: the outer loop takes the slice of image i and prints
\* the heading; slicing out of range panics.
ReportImage ==
    /\ pc = "report"
    /\ prob = None
    /\ i < Len(vec_imgs)
    /\ LET start == slice_start(i, probability_per_image)
           end == start + probability_per_image
       IN IF end > Len(probability_vec)
          THEN /\ pc' = "panicked"
               /\ err' = "range end index out of range"
               /\ UNCHANGED <<i, prob, j, out>>
          ELSE /\ out' = Append(out, Line("image", vec_imgs[i + 1], "", -1, i, -1))
               /\ IF end = start
                  THEN i' = i + 1 /\ prob' = None
                  ELSE i' = i /\ prob' = Some(slice(probability_vec, start, end))
               /\ j' = 0
               /\ UNCHANGED <<pc, err>>
    /\ UNCHANGED <<logits_per_image, forward_calls, probability_vec>>
    /\ UNCHANGED <<argVars, imgVars, tokVars>>

\* main, lines 160-162: one line of the inner loop; vec_seq[j] out of range
\* panics.
ReportLine ==
    /\ pc = "report"
    /\ IsSome(prob)
    /\ j < Len(Unwrap(prob))
    /\ IF j >= Len(vec_seq)
       THEN /\ pc' = "panicked"
            /\ err' = "index out of bounds"
            /\ UNCHANGED <<i, prob, j, out>>
       ELSE /\ out' = Append(out, Line("probability", vec_imgs[i + 1], vec_seq[j + 1],
                                       Unwrap(prob)[j + 1], i, j))
            /\ IF j + 1 = Len(Unwrap(prob))
               THEN i' = i + 1 /\ prob' = None /\ j' = 0
               ELSE i' = i /\ prob' = prob /\ j' = j + 1
            /\ UNCHANGED <<pc, err>>
    /\ UNCHANGED <<logits_per_image, forward_calls, probability_vec>>
    /\ UNCHANGED <<argVars, imgVars, tokVars>>

\* main, line 164: Ok(()).
Finish ==
    /\ pc = "report"
    /\ prob = None
    /\ i = Len(vec_imgs)
    /\ pc' = "done"
    /\ UNCHANGED <<err, argVars, imgVars, tokVars, repVars>>

Next ==
    \/ Start
    \/ LoadImagesStep
    \/ LoadImagesReturn
    \/ TokenizeStart
    \/ EncodeStep
    \/ PadStep
    \/ TokenizeReturn
    \/ Forward
    \/ Softmax
    \/ ReportImage
    \/ ReportLine
    \/ Finish

Spec == Init /\ [][Next]_vars

\* ------------------------------------------- load_image as a pure function
\* Raw buffers: byte k is base + k * step modulo 256 (step 0: one colour,
\* white for base 255 and black for base 0).
RawBuffers(size) ==
    {[k \in 1..(3 * size * size) |-> (base + (k - 1) * step) % 256] :
        base \in 0..255, step \in {0, 1, 37}}

InitImage ==
    /\ pc = "load_image"
    /\ image_size \in 1..MaxImageSize
    /\ img_file \in {None} \cup {Some(r) : r \in RawBuffers(image_size)}
    /\ tensor = None
    /\ args_images = None /\ args_sequences = None
    /\ InitLocals

\* load_image, lines 66-81.
LoadImageCall ==
    /\ pc = "load_image"
    /\ LET r == load_image_file(img_file, image_size)
       IN /\ tensor' = r.val
          /\ err' = r.err
          /\ pc' = IF r.ok THEN "returned" ELSE "failed"
    /\ UNCHANGED <<args_images, args_sequences, image_size, img_file>>
    /\ UNCHANGED <<imgVars, tokVars, repVars>>

NextImage == LoadImageCall

SpecImage == InitImage /\ [][NextImage]_vars

\* ------------------------------------------------------------------ claims
\* The lists the run was given, the defaults standing in for an absent one.
InputImages == IF IsSome(args_images) THEN Unwrap(args_images) ELSE DefaultImages
InputTexts == IF IsSome(args_sequences) THEN Unwrap(args_sequences) ELSE DefaultTexts

Fits(text) == encode(text).ok /\ Len(encode(text).ids) <= max_len
Overlong(text) == encode(text).ok /\ Len(encode(text).ids) > max_len

TokenizeErrors ==
    {"TokenizationError", "attempt to subtract with overflow", "capacity overflow",
     "empty array", "different shapes"}

AfterSoftmax == pc \in {"report", "done"}
AfterTokenize == pc \in {"forward", "softmax", "report", "done"}

\* Percentage of text t (from 0) for image r (from 0), from the logits.
ExpectedPercent(r, t) == softmax_vec(Unwrap(logits_per_image)[r + 1])[t + 1] * 100

ProbabilityLines == {k \in 1..Len(out) : out[k].kind = "probability"}

\* C1: for M >= 1 texts whose natural token lengths are all <= max_len,
\* tokenize_sequences does not fail and returns M rows of length exactly
\* max_len; row k is the tokenizer's ids of text k followed by pad_id up to
\* max_len, and a row of natural length max_len gets no padding.
C1_PaddedBatch ==
    (/\ IsSome(seq_local)
     /\ Len(Unwrap(seq_local)) >= 1
     /\ \A k \in 1..Len(Unwrap(seq_local)) : Fits(Unwrap(seq_local)[k]))
    =>
    /\ ~(pc \in {"failed", "panicked"} /\ err \in TokenizeErrors)
    /\ IsSome(input_ids) =>
         LET texts == Unwrap(seq_local)
             ids == Unwrap(input_ids)
         IN /\ Len(ids) = Len(texts)
            /\ \A k \in 1..Len(ids) :
                 LET nat == encode(texts[k]).ids
                 IN /\ Len(ids[k]) = max_len
                    /\ SubSeq(ids[k], 1, Len(nat)) = nat
                    /\ \A q \in (Len(nat) + 1)..max_len : ids[k][q] = pad_id

C1_Witness ==
    /\ IsSome(input_ids)
    /\ \E k \in 1..Len(vec_seq) : Len(encode(vec_seq[k]).ids) < max_len
    /\ \E k \in 1..Len(vec_seq) : Len(encode(vec_seq[k]).ids) = max_len

\* C2: the report loop attributes to image i and text j the flat element
\* i*M + j, which is the percentage of row i, column j; the group size is M,
\* the slices stay in range, and at the end every pair (i, j) has exactly one
\* line.
C2_SliceAlignment ==
    /\ err \notin {"range end index out of range", "index out of bounds"}
    /\ AfterSoftmax =>
         LET N == Len(InputImages)
             M == Len(InputTexts)
         IN /\ Len(probability_vec) = N * M
            /\ probability_per_image = M
            /\ \A k \in ProbabilityLines :
                 /\ out[k].i \in 0..(N - 1) /\ out[k].j \in 0..(M - 1)
                 /\ out[k].p = probability_vec[out[k].i * M + out[k].j + 1]
                 /\ out[k].p = ExpectedPercent(out[k].i, out[k].j)
                 /\ \A l \in ProbabilityLines :
                      (out[l].i = out[k].i /\ out[l].j = out[k].j) => l = k
            /\ pc = "done" => Cardinality(ProbabilityLines) = N * M

C2_Witness ==
    /\ pc = "done"
    /\ Len(vec_imgs) >= 2 /\ Len(vec_seq) >= 2
    /\ Unwrap(logits_per_image)[1] # Unwrap(logits_per_image)[2]

\* C3: load_images returns one entry per path, entry i being the tensor
\* load_image yields for paths[i]; it does not fail when every path decodes.
C3_ImageOrder ==
    /\ IsSome(image_batch) =>
         LET batch == Unwrap(image_batch)
         IN /\ Len(batch) = Len(InputImages)
            /\ \A k \in 1..Len(batch) :
                 /\ IsSome(FileAt(InputImages[k], image_size))
                 /\ batch[k] = load_image(Unwrap(FileAt(InputImages[k], image_size)),
                                          image_size)
    /\ (\A k \in 1..Len(InputImages) : IsSome(FileAt(InputImages[k], image_size)))
         => err \notin {"DecodeError", "ShapeMismatchError"}

C3_Witness ==
    /\ IsSome(image_batch)
    /\ Len(Unwrap(image_batch)) >= 2
    /\ Unwrap(image_batch)[1] # Unwrap(image_batch)[2]

\* C4: when some path fails to decode, no batch is produced, the scoring
\* model is never called and nothing is printed, and the run ends with the
\* decode error; in every run, output and the model call come only after the
\* stages before them succeeded.
C4_FailFast ==
    /\ (\E k \in 1..Len(InputImages) : ~IsSome(FileAt(InputImages[k], image_size)))
         => /\ image_batch = None
            /\ forward_calls = 0
            /\ out = <<>>
            /\ pc \in {"start", "load_images", "failed"}
            /\ pc = "failed" => err = "DecodeError"
    /\ forward_calls > 0 => IsSome(image_batch) /\ IsSome(input_ids)
    /\ out # <<>> =>
         IsSome(image_batch) /\ IsSome(input_ids) /\ IsSome(logits_per_image)

C4_Witness ==
    /\ pc = "failed"
    /\ err = "DecodeError"
    /\ Len(images) >= 1

\* 100.0 in units of 2^-20, and the tolerance 1e-3 in the same units.
Hundred == 100 * ProbOne
Epsilon == ProbOne \div 1000

RowPercents(r) ==
    [t \in 1..Len(InputTexts) |-> probability_vec[r * Len(InputTexts) + t]]

LinesOf(r) == {k \in ProbabilityLines : out[k].i = r}

RECURSIVE SumShown(_)
SumShown(ks) ==
    IF ks = {} THEN 0
    ELSE LET k == CHOOSE x \in ks : TRUE IN out[k].shown + SumShown(ks \ {k})

\* C5: for every image row the percentages (softmax over the texts, times
\* 100) sum to 100.0 within 1e-3 and each lies in [0, 100]; the same holds of
\* the values as printed with four decimals once the image's lines are out.
C5_PercentSum ==
    AfterSoftmax =>
      /\ \A r \in 0..(Len(InputImages) - 1) :
           /\ Abs(SumSeq(RowPercents(r)) - Hundred) <= Epsilon
           /\ \A t \in 1..Len(InputTexts) :
                RowPercents(r)[t] >= 0 /\ RowPercents(r)[t] <= Hundred
      /\ \A k \in ProbabilityLines : out[k].shown >= 0 /\ out[k].shown <= 1000000
      /\ \A r \in 0..(i - 1) : Abs(SumShown(LinesOf(r)) - 1000000) <= 10

C5_Witness ==
    /\ pc = "done"
    /\ Len(vec_seq) >= 2
    /\ \E k, l \in ProbabilityLines : out[k].i = out[l].i /\ out[k].p # out[l].p

\* The report in input order: per image a heading, then one line per text.
ExpectedGroup(r) ==
    <<[kind |-> "image", img |-> InputImages[r + 1], text |-> "", p |-> -1]>>
    \o [t \in 1..Len(InputTexts) |->
          [kind |-> "probability", img |-> InputImages[r + 1],
           text |-> InputTexts[t], p |-> ExpectedPercent(r, t - 1)]]

RECURSIVE ExpectedReport(_)
ExpectedReport(n) ==
    IF n = 0 THEN <<>> ELSE ExpectedReport(n - 1) \o ExpectedGroup(n - 1)

IsReportLine(ln) == ln.kind # "softmax_image_vec"

\* C6: the report lists the images in the order of the path list and, under
\* each, the texts in input order with their own probabilities, whatever the
\* probabilities are: what is printed is always a prefix of that report, and
\* the whole of it at the end.
C6_InputOrder ==
    AfterSoftmax =>
      LET rep == SelectSeq(out, IsReportLine)
          exp == ExpectedReport(Len(InputImages))
      IN /\ Len(rep) <= Len(exp)
         /\ \A k \in 1..Len(rep) :
              /\ rep[k].kind = exp[k].kind
              /\ rep[k].img = exp[k].img
              /\ rep[k].text = exp[k].text
              /\ rep[k].p = exp[k].p
         /\ pc = "done" => Len(rep) = Len(exp)

C6_Witness ==
    /\ pc = "done"
    /\ \E k, l \in ProbabilityLines :
         out[k].i = out[l].i /\ out[k].j < out[l].j /\ out[k].p < out[l].p

\* C7: an explicitly given empty text list ends the run with an error: no
\* token batch, no output; the defaults are used only when no list is given.
C7_EmptyTextsFail ==
    /\ (IsSome(args_sequences) /\ Len(Unwrap(args_sequences)) = 0) =>
         /\ input_ids = None
         /\ out = <<>>
         /\ ~AfterTokenize
         /\ IsSome(seq_local) => Len(Unwrap(seq_local)) = 0
         /\ (pc = "failed" /\ IsSome(seq_local)) => err = "empty array"
    /\ (IsSome(seq_local) /\ IsSome(args_sequences)) =>
         Unwrap(seq_local) = Unwrap(args_sequences)
    /\ (IsSome(seq_local) /\ ~IsSome(args_sequences)) =>
         Unwrap(seq_local) = DefaultTexts

C7_Witness ==
    /\ IsSome(args_sequences)
    /\ Len(Unwrap(args_sequences)) = 0
    /\ pc = "failed"
    /\ err = "empty array"

\* C8: load_image maps the byte x to x*(2/255) - 1 in f32: every element is
\* in [-1, 1], 255 gives +1 and 0 gives -1, a larger byte gives a larger
\* value, the result is within 2^-21 of the exact value, and element
\* (c, h, w) of the (3, image_size, image_size) tensor comes from raw byte
\* (h*image_size + w)*3 + c.
C8_AffineRange ==
    IsSome(tensor) =>
      LET t == Unwrap(tensor)
          raw == Unwrap(img_file)
          S == 0..(image_size - 1)
          Byte(c, h, w) == raw[(h * image_size + w) * 3 + c + 1]
          Exact22(x) == ((2 * x - 255) * (2^22)) \div 255
      IN /\ DOMAIN t = 0..2
         /\ \A c \in 0..2 : DOMAIN t[c] = S /\ \A h \in S : DOMAIN t[c][h] = S
         /\ \A c \in 0..2, h \in S, w \in S :
              LET x == Byte(c, h, w)
                  v == t[c][h][w]
              IN /\ v >= -F32One /\ v <= F32One
                 /\ x = 255 => v = F32One
                 /\ x = 0 => v = -F32One
                 /\ Abs((v \div 256) - Exact22(x)) <= 2
                 /\ \A c2 \in 0..2, h2 \in S, w2 \in S :
                      x < Byte(c2, h2, w2) => v < t[c2][h2][w2]

C8_Witness ==
    /\ pc = "returned"
    /\ image_size >= 2
    /\ \E k \in 1..Len(Unwrap(img_file)) : Unwrap(img_file)[k] = 255
    /\ \E k \in 1..Len(Unwrap(img_file)) : Unwrap(img_file)[k] = 0
    /\ Unwrap(tensor)[2][1][0] = affine(Unwrap(img_file)[9])

\* C9: row k of the token batch comes from the k-th input text, the returned
\* text list is the input list, and the text printed at position j is the
\* text whose tokens are row j of the batch.
C9_TextOrder ==
    IsSome(input_ids) =>
      LET ids == Unwrap(input_ids)
      IN /\ vec_seq = InputTexts
         /\ Len(ids) = Len(InputTexts)
         /\ \A k \in 1..Len(ids) :
              LET nat == encode(InputTexts[k]).ids
              IN Len(ids[k]) >= Len(nat) /\ SubSeq(ids[k], 1, Len(nat)) = nat
         /\ \A k \in ProbabilityLines :
              /\ out[k].text = InputTexts[out[k].j + 1]
              /\ LET nat == encode(out[k].text).ids
                 IN SubSeq(ids[out[k].j + 1], 1, Len(nat)) = nat

C9_Witness ==
    /\ pc = "done"
    /\ Len(vec_seq) >= 2
    /\ vec_seq[1] # vec_seq[2]

\* C10: when some text has more than max_len tokens, tokenize_sequences
\* returns no token batch: the padding loop never completes, no row leaves
\* it with a length other than max_len, and the run ends in a panic or an
\* error, never in the model call or the report.
C10_NoSilentTruncation ==
    (\E k \in 1..Len(InputTexts) : Overlong(InputTexts[k])) =>
      /\ input_ids = None
      /\ pc \in {"start", "load_images", "tokenize", "failed", "panicked"}
      /\ forward_calls = 0
      /\ out = <<>>
      /\ \A k \in 1..padded : Len(tokens[k]) = max_len
      /\ ~(IsSome(seq_local) /\ Len(tokens) = Len(Unwrap(seq_local))
            /\ padded = Len(tokens))

C10_Witness ==
    /\ pc = "panicked"
    /\ err = "capacity overflow"
    /\ \E k \in 1..Len(tokens) : Len(tokens[k]) > max_len

====
